---- MODULE Spec2Model ----
(***************************************************************************)
(* Model of src/main.rs: a winit ApplicationHandler shell (WinitWrapper)   *)
(* that lazily creates a window and a wgpu graphics State and forwards     *)
(* every platform event to it.                                             *)
(*                                                                         *)
(* The platform (winit's event loop, the window, the wgpu surface) is the  *)
(* environment: it chooses which event is delivered next, what the window  *)
(* size is, and what Surface::get_current_texture returns.                 *)
(***************************************************************************)
EXTENDS Integers, Sequences, FiniteSets, TLC

\* Largest window dimension the platform reports (dimensions are 0..MaxDim).
MaxDim == 2

Dim == 0 .. MaxDim

\* winit::dpi::PhysicalSize<u32>
PhysicalSize == [width : Dim, height : Dim]

Size(w, h) == [width |-> w, height |-> h]

\* Option<T> is a sequence of length 0 (None) or 1 (Some(x)).
None == << >>

Some(x) == << x >>

is_none(o) == Len(o) = 0

is_some(o) == Len(o) = 1

unwrap(o) == o[1]

\* SurfaceConfiguration.desired_maximum_frame_latency set by State::new.
desired_maximum_frame_latency == 2

\* wgpu::SurfaceError, as returned by Surface::get_current_texture.
SurfaceError == {"Timeout", "Outdated", "Lost", "OutOfMemory"}

\* What Surface::get_current_texture can answer: a frame, or an error.
AcquireResult == {"Ok"} \cup SurfaceError

\* The WindowEvent variants the program distinguishes; "Other" stands for
\* every variant that falls into the `_ => {}` arm.
WindowEventKind == {"CloseRequested", "Resized", "RedrawRequested", "Other"}

\* The ApplicationHandler hooks besides resumed and window_event.
PlainHook == {"new_events", "device_event", "about_to_wait", "suspended",
              "exiting", "memory_warning"}

\* One call made on a collaborator (surface, queue, window, event loop),
\* with the size it carries where it carries one.
Call(op, size) == [op |-> op, size |-> size]

NoSize == Size(0, 0)

\* An event as it is handed to a handler.
Event(hook, kind, payload) == [hook |-> hook, kind |-> kind, payload |-> payload]

NoEvent == Event("none", "none", NoSize)

VARIABLES
    window,          \* WinitWrapper.window : Option<Arc<Window>>
    state,           \* WinitWrapper.state  : Option<State>
    inner_size,      \* what window.inner_size() answers now
    exit,            \* the event loop's exit flag (set by event_loop.exit())
    redraw_pending,  \* a redraw requested by window.request_redraw() waits
    loop,            \* "running", "stopped" (run_app returned), "panicked"
    event,           \* the event handled by the latest step
    calls,           \* the collaborator calls of the latest handling, in order
    renders,         \* what each render() of the latest handling returned
    forwarded,       \* the events the shell handed to State in that handling
    pre,             \* WinitWrapper.state as it was before that handling
    prev,            \* what the handling before that one rendered and presented
    created,         \* how many times a window + State were created
    closed           \* a CloseRequested reached an initialised application

vars == << window, state, inner_size, exit, redraw_pending, loop,
           event, calls, renders, forwarded, pre, prev, created, closed >>

(***************************************************************************)
(* The handlers are operators on a record m of everything a handler can    *)
(* touch: the shell's two fields, the event loop's exit flag, the window's *)
(* pending redraw request, and the record of what the handling did.        *)
(* `self` of a State method is unwrap(m.state).                            *)
(***************************************************************************)
World ==
    [window |-> window, state |-> state, exit |-> exit,
     redraw_pending |-> redraw_pending, created |-> created,
     calls |-> << >>, renders |-> << >>, forwarded |-> << >>,
     panic |-> FALSE]

did(m, op, size) == [m EXCEPT !.calls = Append(@, Call(op, size))]

\* State::new: the configuration is built from the window's size; the
\* surface is created but State::new never calls surface.configure.
State_new(size) ==
    [surface_config |->
        [width |-> size.width, height |-> size.height,
         desired_maximum_frame_latency |-> desired_maximum_frame_latency],
     surface |-> None]

\* State::resize with the guard written `||`.
State_resize_either_positive(m, new_size) ==
    LET self == unwrap(m.state)
        entered == did(m, "resize", new_size)
    IN  IF new_size.width > 0 \/ new_size.height > 0
        THEN LET cfg == [self.surface_config EXCEPT
                            !.width = new_size.width,
                            !.height = new_size.height]
             IN  did([entered EXCEPT !.state =
                         Some([surface_config |-> cfg, surface |-> Some(cfg)])],
                     "configure", Size(cfg.width, cfg.height))
        ELSE entered

\* State::resize with the surface configured before the new size is stored.
State_resize_configure_first(m, new_size) ==
    LET self == unwrap(m.state)
        entered == did(m, "resize", new_size)
    IN  IF new_size.width > 0 /\ new_size.height > 0
        THEN LET old == self.surface_config
                 cfg == [old EXCEPT !.width = new_size.width,
                                    !.height = new_size.height]
             IN  did([entered EXCEPT !.state =
                         Some([surface_config |-> cfg, surface |-> Some(old)])],
                     "configure", Size(old.width, old.height))
        ELSE entered

\* State::resize storing the new size before the guard and configuring after.
State_resize_stores_always(m, new_size) ==
    LET self == unwrap(m.state)
        entered == did(m, "resize", new_size)
        cfg == [self.surface_config EXCEPT !.width = new_size.width,
                                           !.height = new_size.height]
    IN  IF new_size.width > 0 /\ new_size.height > 0
        THEN did([entered EXCEPT !.state =
                     Some([surface_config |-> cfg, surface |-> Some(cfg)])],
                 "configure", Size(cfg.width, cfg.height))
        ELSE [entered EXCEPT !.state =
                 Some([surface_config |-> cfg, surface |-> self.surface])]

\* State::resize
State_resize(m, new_size) ==
    LET self == unwrap(m.state)
        entered == did(m, "resize", new_size)
    IN  IF new_size.width > 0 /\ new_size.height > 0
        THEN LET cfg == [self.surface_config EXCEPT
                            !.width = new_size.width,
                            !.height = new_size.height]
             IN  did([entered EXCEPT !.state =
                         Some([surface_config |-> cfg, surface |-> Some(cfg)])],
                     "configure", Size(cfg.width, cfg.height))
        ELSE entered

\* What Surface::get_current_texture can answer on this surface: a surface
\* that was never configured is a fatal wgpu error (the call panics).
Acquire(m) ==
    IF is_some(m.state) /\ is_none(unwrap(m.state).surface)
    THEN {"NotConfigured"}
    ELSE AcquireResult

\* State::render presenting the frame before the commands are submitted.
State_render_present_first(m, acquired) ==
    LET tried == did(m, "get_current_texture", NoSize)
        done == IF acquired = "Ok"
                THEN did(did(did(tried, "begin_render_pass", NoSize),
                             "present", NoSize), "submit", NoSize)
                ELSE tried
    IN  [done EXCEPT !.renders = Append(@, acquired),
                     !.panic = (acquired = "NotConfigured")]

\* State::render zeroing the stored size when no frame could be acquired.
State_render_clears_on_error(m, acquired) ==
    LET tried == did(m, "get_current_texture", NoSize)
        self == unwrap(m.state)
        done == IF acquired = "Ok"
                THEN did(did(did(tried, "begin_render_pass", NoSize),
                             "submit", NoSize), "present", NoSize)
                ELSE [tried EXCEPT !.state =
                        Some([self EXCEPT !.surface_config.width = 0,
                                          !.surface_config.height = 0])]
    IN  [done EXCEPT !.renders = Append(@, acquired),
                     !.panic = (acquired = "NotConfigured")]

\* State::render; `acquired` is what get_current_texture answers. The `?`
\* returns the error before anything is recorded or submitted.
State_render(m, acquired) ==
    LET tried == did(m, "get_current_texture", NoSize)
        done == IF acquired = "Ok"
                THEN did(did(did(tried, "begin_render_pass", NoSize),
                             "submit", NoSize), "present", NoSize)
                ELSE tried
    IN  [done EXCEPT !.renders = Append(@, acquired),
                     !.panic = (acquired = "NotConfigured")]

\* event_loop.exit()
event_loop_exit(m) == [did(m, "exit", NoSize) EXCEPT !.exit = TRUE]

\* window.request_redraw()
request_redraw(m) ==
    [did(m, "request_redraw", NoSize) EXCEPT !.redraw_pending = TRUE]

\* The RedrawRequested arm with request_redraw moved into the arms that go on.
RedrawRequested_quiet_on_oom(m, acquired, win) ==
    LET r == State_render(m, acquired)
        result == r.renders[Len(r.renders)]
    IN  IF r.panic THEN r
        ELSE CASE result = "Lost" -> request_redraw(State_resize(r, win))
               [] result = "OutOfMemory" -> event_loop_exit(r)
               [] OTHER -> request_redraw(r)

\* The RedrawRequested arm with OutOfMemory left to the `_ => {}` arm.
RedrawRequested_oom_ignored(m, acquired, win) ==
    LET r == State_render(m, acquired)
        result == r.renders[Len(r.renders)]
        handled == CASE result = "Lost" -> State_resize(r, win)
                     [] OTHER -> r
    IN  IF r.panic THEN r ELSE request_redraw(handled)

\* The RedrawRequested arm recovering with the size cached in surface_config.
RedrawRequested_cached_size(m, acquired, win) ==
    LET r == State_render(m, acquired)
        result == r.renders[Len(r.renders)]
        cfg == unwrap(r.state).surface_config
        handled == CASE result = "Lost" ->
                            State_resize(r, Size(cfg.width, cfg.height))
                     [] result = "OutOfMemory" -> event_loop_exit(r)
                     [] OTHER -> r
    IN  IF r.panic THEN r ELSE request_redraw(handled)

\* The RedrawRequested arm with Lost left to the `_ => {}` arm.
RedrawRequested_lost_ignored(m, acquired, win) ==
    LET r == State_render(m, acquired)
        result == r.renders[Len(r.renders)]
        handled == CASE result = "OutOfMemory" -> event_loop_exit(r)
                     [] OTHER -> r
    IN  IF r.panic THEN r ELSE request_redraw(handled)

\* The RedrawRequested arm recovering from Outdated as it does from Lost.
RedrawRequested_outdated_resizes(m, acquired, win) ==
    LET r == State_render(m, acquired)
        result == r.renders[Len(r.renders)]
        handled == CASE result \in {"Lost", "Outdated"} -> State_resize(r, win)
                     [] result = "OutOfMemory" -> event_loop_exit(r)
                     [] OTHER -> r
    IN  IF r.panic THEN r ELSE request_redraw(handled)

\* The RedrawRequested arm requesting the next redraw only after a frame was
\* presented.
RedrawRequested_redraw_only_on_ok(m, acquired, win) ==
    LET r == State_render(m, acquired)
        result == r.renders[Len(r.renders)]
    IN  IF r.panic THEN r
        ELSE CASE result = "Ok" -> request_redraw(r)
               [] result = "Lost" -> State_resize(r, win)
               [] result = "OutOfMemory" -> event_loop_exit(r)
               [] OTHER -> r

\* The RedrawRequested arm of State::window_event; `win` is what
\* window.inner_size() answers during the handling.
RedrawRequested(m, acquired, win) ==
    LET r == State_render(m, acquired)
        result == r.renders[Len(r.renders)]
        handled == CASE result = "Lost" -> State_resize(r, win)
                     [] result = "OutOfMemory" -> event_loop_exit(r)
                     [] OTHER -> r
    IN  IF r.panic THEN r ELSE request_redraw(handled)

\* State::window_event with CloseRequested left to the `_ => {}` arm.
State_window_event_close_ignored(m, ev, acquired, win) ==
    CASE ev.kind = "Resized" -> State_resize(m, win)
      [] ev.kind = "RedrawRequested" -> RedrawRequested(m, acquired, win)
      [] OTHER -> m

\* State::window_event resizing to the size the Resized event carries.
State_window_event_resized_payload(m, ev, acquired, win) ==
    CASE ev.kind = "CloseRequested" -> event_loop_exit(m)
      [] ev.kind = "Resized" -> State_resize(m, ev.payload)
      [] ev.kind = "RedrawRequested" -> RedrawRequested(m, acquired, win)
      [] OTHER -> m

\* State::window_event
State_window_event(m, ev, acquired, win) ==
    CASE ev.kind = "CloseRequested" -> event_loop_exit(m)
      [] ev.kind = "Resized" -> State_resize(m, win)
      [] ev.kind = "RedrawRequested" -> RedrawRequested(m, acquired, win)
      [] OTHER -> m

\* State's hooks with about_to_wait asking for a redraw.
State_hook_redraws_before_wait(m, ev) ==
    IF ev.hook = "about_to_wait" THEN request_redraw(m) ELSE m

\* State's other hooks: resumed, new_events, device_event, about_to_wait,
\* suspended, exiting, memory_warning all have empty bodies.
State_hook(m, ev) == m

\* What the shell does when it hands an event to the graphics state.
forward(m, ev) == [m EXCEPT !.forwarded = Append(@, ev)]

\* How window and State creation can end: both succeed, create_window's
\* unwrap panics, or one of State::new's unwraps panics.
InitOutcome == {"ok", "no_window", "no_gpu"}

\* WinitWrapper::resumed without the `if self.window.is_none()` guard.
WinitWrapper_resumed_unguarded(m, ev, init, size) ==
    LET asked == did(m, "create_window", NoSize)
        stored == [asked EXCEPT !.window = Some("window"), !.created = @ + 1]
        made == CASE init = "no_window" -> [asked EXCEPT !.panic = TRUE]
                  [] init = "no_gpu" ->
                       [did(stored, "State::new", size) EXCEPT !.panic = TRUE]
                  [] OTHER ->
                       [did(stored, "State::new", size)
                           EXCEPT !.state = Some(State_new(size))]
    IN  IF made.panic THEN made
        ELSE IF is_none(made.state)
             THEN [did(made, "unwrap_none", NoSize) EXCEPT !.panic = TRUE]
        ELSE State_hook(forward(made, ev), ev)

\* WinitWrapper::resumed storing the window but not the State it built.
WinitWrapper_resumed_state_dropped(m, ev, init, size) ==
    LET made ==
            IF is_none(m.window)
            THEN LET asked == did(m, "create_window", NoSize)
                     stored == [asked EXCEPT !.window = Some("window"),
                                             !.created = @ + 1]
                 IN  CASE init = "no_window" -> [asked EXCEPT !.panic = TRUE]
                       [] init = "no_gpu" ->
                            [did(stored, "State::new", size)
                                EXCEPT !.panic = TRUE]
                       [] OTHER -> did(stored, "State::new", size)
            ELSE m
    IN  IF made.panic THEN made
        ELSE IF is_none(made.state)
             THEN [did(made, "unwrap_none", NoSize) EXCEPT !.panic = TRUE]
        ELSE State_hook(forward(made, ev), ev)

\* WinitWrapper::resumed; `init` is how creation ends if it is attempted and
\* `size` what the new window's inner_size() answers.
WinitWrapper_resumed(m, ev, init, size) ==
    LET made ==
            IF is_none(m.window)
            THEN LET asked == did(m, "create_window", NoSize)
                     stored == [asked EXCEPT !.window = Some("window"),
                                             !.created = @ + 1]
                 IN  CASE init = "no_window" -> [asked EXCEPT !.panic = TRUE]
                       [] init = "no_gpu" ->
                            [did(stored, "State::new", size)
                                EXCEPT !.panic = TRUE]
                       [] OTHER ->
                            [did(stored, "State::new", size)
                                EXCEPT !.state = Some(State_new(size))]
            ELSE m
    IN  IF made.panic THEN made
        ELSE IF is_none(made.state)
             THEN [did(made, "unwrap_none", NoSize) EXCEPT !.panic = TRUE]
        ELSE State_hook(forward(made, ev), ev)

\* WinitWrapper::window_event handling CloseRequested itself when there is no
\* State to hand it to.
WinitWrapper_window_event_close_early(m, ev, acquired, win) ==
    IF is_some(m.state)
    THEN State_window_event(forward(m, ev), ev, acquired, win)
    ELSE IF ev.kind = "CloseRequested" THEN event_loop_exit(m) ELSE m

\* WinitWrapper::window_event
WinitWrapper_window_event(m, ev, acquired, win) ==
    IF is_some(m.state)
    THEN State_window_event(forward(m, ev), ev, acquired, win)
    ELSE m

\* WinitWrapper::new_events, device_event, about_to_wait, suspended, exiting
\* and memory_warning: six bodies of the same shape.
WinitWrapper_hook(m, ev) ==
    IF is_some(m.state) THEN State_hook(forward(m, ev), ev) ELSE m

(***************************************************************************)
(* The event loop of main: run_app delivers one event at a time to the     *)
(* shell until it stops.                                                   *)
(***************************************************************************)
\* How many calls of `op` a handling made.
Count(cs, op) == Cardinality({i \in DOMAIN cs : cs[i].op = op})

\* The record of the latest step, as the next step remembers it.
Log == [renders |-> renders, presents |-> Count(calls, "present"),
        kept |-> (state = pre)]

\* WinitWrapper::default() and a fresh event loop.
Init ==
    /\ window = None
    /\ state = None
    /\ inner_size = NoSize
    /\ exit = FALSE
    /\ redraw_pending = FALSE
    /\ loop = "running"
    /\ event = NoEvent
    /\ calls = << >>
    /\ renders = << >>
    /\ forwarded = << >>
    /\ pre = None
    /\ prev = Log
    /\ created = 0
    /\ closed = FALSE

\* The state after a handler has run on World and left n.
Commit(n, ev) ==
    /\ window' = n.window
    /\ state' = n.state
    /\ exit' = n.exit
    /\ redraw_pending' = n.redraw_pending
    /\ created' = n.created
    /\ calls' = n.calls
    /\ renders' = n.renders
    /\ forwarded' = n.forwarded
    /\ event' = ev
    /\ pre' = state
    /\ prev' = Log
    /\ closed' = (closed \/ (ev.kind = "CloseRequested" /\ is_some(state)))

\* The platform delivers `resumed`. Only a resumed that finds no window
\* creates one, so only then do `init` and `size` matter.
Resumed ==
    /\ loop = "running"
    /\ \E init \in InitOutcome, size \in PhysicalSize :
         /\ is_some(window) => (init = "ok" /\ size = inner_size)
         /\ LET ev == Event("resumed", "none", NoSize)
                 n == WinitWrapper_resumed(World, ev, init, size)
             IN  /\ Commit(n, ev)
                 /\ loop' = IF n.panic THEN "panicked" ELSE loop
                 /\ inner_size' = IF is_some(n.window) THEN size ELSE inner_size

\* The platform delivers WindowEvent::CloseRequested, or one of the window
\* events the program does not look at.
CloseOrOther ==
    /\ loop = "running"
    /\ \E kind \in {"CloseRequested", "Other"} :
         LET ev == Event("window_event", kind, NoSize)
             n == WinitWrapper_window_event(World, ev, "Ok", inner_size)
         IN  /\ Commit(n, ev)
             /\ UNCHANGED << loop, inner_size >>

\* The platform delivers WindowEvent::Resized with the size it had when it
\* issued the event; the window may have changed size again since.
Resized ==
    /\ loop = "running"
    /\ \E payload \in PhysicalSize :
         LET ev == Event("window_event", "Resized", payload)
             n == WinitWrapper_window_event(World, ev, "Ok", inner_size)
         IN  /\ Commit(n, ev)
             /\ UNCHANGED << loop, inner_size >>

\* The platform delivers WindowEvent::RedrawRequested, which consumes the
\* pending redraw request. run_app looks at the exit flag only after the
\* events of the current iteration have been dispatched, so a redraw can
\* still be delivered after event_loop.exit().
Redraw ==
    /\ loop = "running"
    /\ \E acquired \in Acquire(World) :
         LET ev == Event("window_event", "RedrawRequested", NoSize)
             n == WinitWrapper_window_event(
                      [World EXCEPT !.redraw_pending = FALSE],
                      ev, acquired, inner_size)
         IN  /\ Commit(n, ev)
             /\ loop' = IF n.panic THEN "panicked" ELSE loop
             /\ UNCHANGED inner_size

\* The platform delivers one of the other hooks while the loop runs.
Hook ==
    /\ loop = "running"
    /\ \E h \in PlainHook \ {"exiting"} :
         LET ev == Event(h, "none", NoSize)
             n == WinitWrapper_hook(World, ev)
         IN  /\ Commit(n, ev)
             /\ UNCHANGED << loop, inner_size >>

\* The loop shuts down: once the exit flag is set it delivers `exiting`, the
\* last event, and run_app returns.
Exiting ==
    /\ loop = "running"
    /\ exit
    /\ LET ev == Event("exiting", "none", NoSize)
           n == WinitWrapper_hook(World, ev)
       IN  /\ Commit(n, ev)
           /\ loop' = "stopped"
           /\ UNCHANGED inner_size

\* The user or the window manager changes the window's size; no handler runs.
PlatformResize ==
    /\ loop = "running"
    /\ is_some(window)
    /\ \E size \in PhysicalSize :
         /\ size # inner_size
         /\ inner_size' = size
    /\ event' = NoEvent
    /\ calls' = << >>
    /\ renders' = << >>
    /\ forwarded' = << >>
    /\ pre' = state
    /\ prev' = Log
    /\ UNCHANGED << window, state, exit, redraw_pending, loop, created, closed >>

Next ==
    \/ Resumed
    \/ CloseOrOther
    \/ Resized
    \/ Redraw
    \/ Hook
    \/ Exiting
    \/ PlatformResize

Spec == Init /\ [][Next]_vars

\* The platform delivers the redraw that window.request_redraw() asked for.
RequestedRedraw == redraw_pending /\ Redraw

\* Largest window dimension in the runs checked for liveness.
MaxLiveDim == 1

\* The window and the Resized events stay within MaxLiveDim.
LiveWindow ==
    /\ inner_size \in [width : 0 .. MaxLiveDim, height : 0 .. MaxLiveDim]
    /\ event.payload \in [width : 0 .. MaxLiveDim, height : 0 .. MaxLiveDim]

LiveNext ==
    \/ Resumed /\ LiveWindow'
    \/ CloseOrOther /\ LiveWindow'
    \/ Resized /\ LiveWindow'
    \/ Redraw /\ LiveWindow'
    \/ Hook /\ LiveWindow'
    \/ Exiting /\ LiveWindow'
    \/ PlatformResize /\ LiveWindow'

\* The program on a platform that does not leave a requested redraw
\* undelivered forever (ControlFlow::Wait wakes up for it).
LiveSpec == Init /\ [][LiveNext]_vars /\ WF_vars(RequestedRedraw)

(***************************************************************************)
(* Properties                                                              *)
(***************************************************************************)
\* The operations of a handling's calls, in order.
Ops(cs) == [i \in DOMAIN cs |-> cs[i].op]

\* The positions at which a handling called `op`.
At(cs, op) == {i \in DOMAIN cs : cs[i].op = op}

Positive(size) == size.width > 0 /\ size.height > 0

ConfigSize(s) == Size(s.surface_config.width, s.surface_config.height)

\* The latest step handled this window event on an initialised application.
Handled(kind) ==
    /\ event.hook = "window_event"
    /\ event.kind = kind
    /\ is_some(pre)

\* The latest step was a redraw handling whose render() returned `result`.
RenderReturned(result) ==
    /\ Handled("RedrawRequested")
    /\ renders = << result >>

\* C1, as stated: when render() fails with OutOfMemory, the redraw handling
\* does not call window.request_redraw.
C1_NoRedrawRequestOnOutOfMemory ==
    RenderReturned("OutOfMemory") =>
        /\ Count(calls, "request_redraw") = 0
        /\ ~redraw_pending

\* C1, amended: when render() fails with OutOfMemory, the redraw handling
\* signals exit and then still requests a redraw, exactly once: the request
\* at the end of the handling is unconditional.
C1_RedrawRequestedAfterExitOnOutOfMemory ==
    RenderReturned("OutOfMemory") =>
        /\ Ops(calls) = << "get_current_texture", "exit", "request_redraw" >>
        /\ redraw_pending

C1_Witness ==
    /\ RenderReturned("OutOfMemory")
    /\ Count(calls, "request_redraw") = 1

\* C2: when render() fails with OutOfMemory, the redraw handling calls
\* event_loop.exit(): the exit flag is set and the handler returns without a
\* panic, so the loop ends by its exit path.
C2_OutOfMemorySignalsExit ==
    RenderReturned("OutOfMemory") =>
        /\ Count(calls, "exit") = 1
        /\ exit
        /\ loop = "running"
        /\ ENABLED Exiting

C2_Witness ==
    /\ RenderReturned("OutOfMemory")
    /\ exit
    /\ ~closed

\* C3: a resize with width = 0 or height = 0 leaves the whole stored
\* configuration as it was and does not configure the surface.
C3_ZeroResizeIsNoOp ==
    \A i \in At(calls, "resize") :
        ~Positive(calls[i].size) =>
            /\ state = pre
            /\ Count(calls, "configure") = 0

C3_Witness ==
    /\ is_some(state)
    /\ Positive(ConfigSize(unwrap(state)))
    /\ \E i \in At(calls, "resize") :
          calls[i].size.width = 0 /\ calls[i].size.height > 0

\* C4, as stated: after a Resized event with width > 0 and height > 0 the
\* stored width and height are the event's and the surface was configured
\* exactly once in the handling.
C4_ResizedStoresEventSize ==
    (Handled("Resized") /\ Positive(event.payload)) =>
        /\ ConfigSize(unwrap(state)) = event.payload
        /\ Count(calls, "configure") = 1

\* C4, amended: after a Resized event handled while the window's own size,
\* as window.inner_size() answers it, has width > 0 and height > 0, the stored
\* width and height are that size (the event's, when the window has not
\* changed size since), and the surface was configured exactly once in the
\* handling, with the stored configuration.
C4_ResizedStoresWindowSize ==
    (Handled("Resized") /\ Positive(inner_size)) =>
        /\ ConfigSize(unwrap(state)) = inner_size
        /\ Count(calls, "configure") = 1
        /\ \A i \in At(calls, "configure") : calls[i].size = inner_size
        /\ unwrap(state).surface = Some(unwrap(state).surface_config)

C4_Witness ==
    /\ Handled("Resized")
    /\ Positive(inner_size)
    /\ event.payload = inner_size
    /\ ConfigSize(unwrap(pre)) # inner_size
    /\ ConfigSize(unwrap(state)) = inner_size

\* C5: when render() fails with Lost, resize is called once, with the size
\* the window has during the handling, whatever size the stored
\* configuration holds.
C5_LostRecoversWithWindowSize ==
    RenderReturned("Lost") =>
        /\ Count(calls, "resize") = 1
        /\ \A i \in At(calls, "resize") : calls[i].size = inner_size

C5_Witness ==
    /\ RenderReturned("Lost")
    /\ Positive(inner_size)
    /\ ConfigSize(unwrap(pre)) # inner_size
    /\ \E i \in At(calls, "resize") : calls[i].size = inner_size

\* C6, as stated: once a CloseRequested has reached an initialised
\* application, the exit flag is set and no handling that returns to the
\* loop has called render().
C6_NoRenderAfterClose ==
    closed => (exit /\ (loop # "panicked" => renders = << >>))

\* C6, amended: once a CloseRequested has reached an initialised application
\* the exit flag is set and stays set, the close handling itself does not
\* render, and nothing renders once the loop has shut down; only a
\* RedrawRequested that the platform still delivers before the loop shuts
\* down calls render().
C6_CloseSignalsExit ==
    closed =>
        /\ exit
        /\ Handled("CloseRequested") =>
              (Ops(calls) = << "exit" >> /\ renders = << >>)
        /\ renders # << >> => Handled("RedrawRequested")
        /\ loop = "stopped" => renders = << >>

C6_Witness ==
    /\ closed
    /\ loop = "stopped"
    /\ is_some(state)

\* C7: a RedrawRequested whose frame acquisition succeeds makes exactly one
\* queue submit, then exactly one present, then exactly one redraw request,
\* which is left pending.
C7_RedrawSubmitsPresentsRequests ==
    RenderReturned("Ok") =>
        /\ Ops(calls) = << "get_current_texture", "begin_render_pass",
                           "submit", "present", "request_redraw" >>
        /\ redraw_pending

C7_Witness ==
    /\ RenderReturned("Ok")
    /\ Count(calls, "submit") = 1
    /\ Count(calls, "present") = 1
    /\ redraw_pending

\* C8: two render() calls in succession, each with its frame acquired, make
\* one present each, and render() leaves the stored configuration as it was
\* whether it returns Ok or an error (only the resize after a Lost changes
\* it).
C8_RenderTwiceKeepsConfig ==
    /\ (prev.renders = << "Ok" >> /\ RenderReturned("Ok")) =>
          (prev.presents = 1 /\ Count(calls, "present") = 1 /\ prev.kept)
    /\ (renders # << >> /\ Count(calls, "configure") = 0) => state = pre

C8_Witness ==
    /\ prev.renders = << "Ok" >>
    /\ RenderReturned("Ok")
    /\ state = pre

\* C9: a window and a State are created at most once, by a resumed that
\* finds no window; a resumed that finds them leaves both in place.
C9_CreatedAtMostOnce ==
    /\ created <= 1
    /\ Count(calls, "create_window") > 0 =>
          (event.hook = "resumed" /\ is_none(pre))
    /\ (event.hook = "resumed" /\ is_some(pre)) =>
          /\ state = pre
          /\ is_some(window)
          /\ calls = << >>

C9_Witness ==
    /\ event.hook = "resumed"
    /\ is_some(pre)
    /\ created = 1

\* C10: a window event or a new_events, device_event, about_to_wait,
\* suspended, exiting or memory_warning hook is handed to the State once,
\* as it came, when there is a State; when there is none it is dropped:
\* nothing is stored, rendered, resized or configured, and no exit is
\* signalled.
C10_ForwardedOnceOrDropped ==
    (event.hook \in PlainHook \cup {"window_event"}) =>
        IF is_some(pre)
        THEN forwarded = << event >>
        ELSE /\ forwarded = << >>
             /\ calls = << >>
             /\ renders = << >>
             /\ state = None
             /\ ~exit
             /\ ~redraw_pending

C10_Witness ==
    /\ event.hook = "window_event"
    /\ event.kind = "CloseRequested"
    /\ is_none(pre)
    /\ forwarded = << >>

\* C11, as stated: when render() fails with Lost, surface.configure is
\* applied with the window's current size within the same handling.
C11_LostReconfigures ==
    RenderReturned("Lost") =>
        /\ Count(calls, "configure") = 1
        /\ \A i \in At(calls, "configure") : calls[i].size = inner_size

\* C11, amended: when render() fails with Lost and the window's current
\* size has width > 0 and height > 0, surface.configure is applied once with
\* that size within the same handling, after the failed render and before
\* the redraw request; when the current size has a zero dimension the
\* handling configures nothing and the stored configuration stays as it was.
C11_LostReconfiguresWhenPositive ==
    RenderReturned("Lost") =>
        IF Positive(inner_size)
        THEN /\ Ops(calls) = << "get_current_texture", "resize", "configure",
                                "request_redraw" >>
             /\ calls[3].size = inner_size
             /\ unwrap(state).surface = Some(unwrap(state).surface_config)
             /\ ConfigSize(unwrap(state)) = inner_size
        ELSE /\ Count(calls, "configure") = 0
             /\ state = pre

C11_Witness ==
    /\ RenderReturned("Lost")
    /\ Positive(inner_size)
    /\ Count(calls, "configure") = 1
    /\ ConfigSize(unwrap(pre)) # inner_size

\* C12: when render() fails with a surface error other than Lost and
\* OutOfMemory, the redraw handling calls neither resize nor configure, does
\* not signal exit, leaves the stored configuration as it was and still
\* requests a redraw, so that a next redraw can be delivered and render
\* again.
C12_OtherErrorsAreSkipped ==
    \A e \in SurfaceError \ {"Lost", "OutOfMemory"} :
        RenderReturned(e) =>
            /\ Ops(calls) = << "get_current_texture", "request_redraw" >>
            /\ state = pre
            /\ redraw_pending
            /\ loop = "running"
            /\ ENABLED Redraw

C12_Witness ==
    /\ RenderReturned("Outdated")
    /\ prev.renders = << "Timeout" >>
    /\ ~exit
    /\ redraw_pending

\* The latest step was a redraw handling that called render() and returned
\* to the loop.
RenderAttempted ==
    /\ Handled("RedrawRequested")
    /\ renders # << >>
    /\ loop = "running"

\* C13: every redraw handling that returns to the loop ends by requesting
\* another redraw, so when the platform delivers requested redraws fairly,
\* once one redraw has been handled render() is attempted again and again
\* unless exit is signalled.
C13_RendersForeverUntilExit ==
    /\ [](RenderAttempted =>
            (redraw_pending /\ calls[Len(calls)].op = "request_redraw"))
    /\ [](RenderAttempted => ([]<>RenderAttempted \/ <>exit))

C13_Witness ==
    /\ RenderAttempted
    /\ prev.renders # << >>
    /\ redraw_pending
    /\ ~exit

\* The latest step ran one of State's empty handlers on an initialised
\* application: a hook, a resumed that found the window, or a window event
\* other than CloseRequested, Resized and RedrawRequested.
EmptyHandlerRan ==
    /\ is_some(pre)
    /\ \/ event.hook \in PlainHook \cup {"resumed"}
       \/ event.hook = "window_event" /\ event.kind = "Other"

\* C14: State's suspended, exiting, memory_warning, device_event, new_events,
\* about_to_wait and later resumed hooks, and every window event other than
\* CloseRequested, Resized and RedrawRequested, leave the stored
\* configuration as it was and make no call at all: no configure, no render,
\* no redraw request, no exit signal.
C14_OtherHooksDoNothing ==
    EmptyHandlerRan =>
        /\ state = pre
        /\ calls = << >>
        /\ renders = << >>
        /\ forwarded = << event >>

C14_Witness ==
    /\ EmptyHandlerRan
    /\ event.hook = "about_to_wait"
    /\ is_some(unwrap(state).surface)
    /\ ~redraw_pending
    /\ ~exit

\* C15: a Resized handling calls resize once, with the size the window has
\* during the handling and not the one the event carries; when that size has
\* a zero dimension the stored configuration keeps its width and height and
\* nothing is configured, even if the event's own size is positive.
C15_ResizedUsesQueriedSize ==
    Handled("Resized") =>
        /\ Count(calls, "resize") = 1
        /\ \A i \in At(calls, "resize") : calls[i].size = inner_size
        /\ ~Positive(inner_size) =>
              (state = pre /\ Count(calls, "configure") = 0)

C15_Witness ==
    /\ Handled("Resized")
    /\ Positive(event.payload)
    /\ ~Positive(inner_size)
    /\ Positive(ConfigSize(unwrap(state)))
    /\ state = pre

\* C16: whenever render() asks the surface for a frame, the surface has been
\* configured before, with the configuration that is stored.
C16_RenderOnlyOnConfiguredSurface ==
    Count(calls, "get_current_texture") > 0 =>
        /\ is_some(unwrap(pre).surface)
        /\ unwrap(pre).surface = Some(unwrap(pre).surface_config)

\* C17: whenever a handler can run, the shell holds a window if and only if
\* it holds a State, and the unwrap of the State at the end of resumed never
\* meets None.
C17_WindowIffState ==
    /\ loop # "panicked" => (is_some(window) <=> is_some(state))
    /\ Count(calls, "unwrap_none") = 0

C17_Witness ==
    /\ event.hook = "resumed"
    /\ forwarded = << event >>
    /\ is_some(pre)
    /\ is_some(window)
    /\ is_some(state)
    /\ loop = "running"

\* C18: every configuration applied to the surface has width > 0 and
\* height > 0 and is the stored configuration at that moment, and the one
\* applied last, if any, is the stored one, also for a window that was
\* created with a zero dimension.
C18_AppliedConfigIsStoredConfig ==
    /\ \A i \in At(calls, "configure") :
          /\ Positive(calls[i].size)
          /\ calls[i].size = ConfigSize(unwrap(state))
    /\ is_some(state) =>
          LET self == unwrap(state)
          IN  is_some(self.surface) =>
                /\ self.surface = Some(self.surface_config)
                /\ Positive(ConfigSize(self))

C18_Witness ==
    /\ is_some(pre)
    /\ ~Positive(ConfigSize(unwrap(pre)))
    /\ is_none(unwrap(pre).surface)
    /\ Count(calls, "configure") = 1
    /\ unwrap(state).surface = Some(unwrap(state).surface_config)

====
